---- MODULE Spec2Model ----
(***************************************************************************)
(* LearnMate API (src/main.py, src/schemas.py): a FastAPI request-handler  *)
(* layer over a document store.  The store is a mapping from collection    *)
(* name to the list of its documents.  The handlers are sync functions     *)
(* that the server runs side by side in a thread pool, so every store call *)
(* of a handler is one step of the worker that runs it, and the steps of   *)
(* different requests interleave.  Python values: str -> string, int ->    *)
(* integer, bool -> boolean.  A value of an Optional field is a tuple:     *)
(* <<>> for None and <<v>> for the value v, so that None differs from      *)
(* every text, the text "None" included.                                   *)
(***************************************************************************)
EXTENDS Integers, Sequences, FiniteSets, TLC

VARIABLES
    db,          \* collection name -> sequence of documents (records)
    connected,   \* the handle `db` of main.py is not None
    emptySetRefused, \* the store's server refuses an update whose $set is empty
    nextId,      \* the _id the store gives to the next inserted document
    today,       \* the server's local calendar day (index into Days)
    utcToday,    \* the calendar day in UTC (index into Days)
    last,        \* the last request handled and its response
    nreq,        \* requests received so far
    primaryDone, \* handler -> number of primary writes the store has applied
    pc           \* worker -> the request it is handling and its position

vars == <<db, connected, emptySetRefused, nextId, today, utcToday, last, nreq, primaryDone, pc>>

(***************************** bounds and inputs ***************************)
MaxRequests == 3      \* requests taken in a behaviour
MaxRequestsWide == 2  \* the same, where requests interleave or inputs are many
MaxAnswers == 3
MaxStored == 2

None == <<>>
Some(v) == <<v>>
PyTrue == TRUE
PyFalse == FALSE

Days == <<"2026-10-30", "2026-10-31">>
QueryUsernames == {"guest", "alice"}
PayloadUsernames == {None, Some(""), Some("alice")}
Titles == {"t1", "t2"}
Contents == {"c1", "c2"}
FullNames == {None, Some("Ann"), Some("None")}
Languages == {None, Some("fr")}
PushValues == {None, Some(PyFalse)}
Subjects == {None, Some("Math")}
AnswerValues == {-1, 0, 1}
AnswerLists == UNION {[1..n -> AnswerValues] : n \in 0..MaxAnswers}
Workers == {"w1", "w2"}
Collections == {"course", "note", "practice", "quizresult", "profile", "notification"}
Handlers == {"add_note", "delete_note", "start_practice", "submit_quiz", "update_profile"}

(******************************* schemas.py ********************************)
ProfileFields == {"username", "full_name", "language", "push_notifications"}
OptionalProfileFields == {"full_name"}
CourseFields == {"title", "subject", "description"}
NoteFields == {"username", "title", "content"}
NotificationFields == {"username", "message", "kind"}

Profile(username) ==
    [username |-> username, full_name |-> None, language |-> "en",
     push_notifications |-> PyTrue]

Course(title, subject, description) ==
    [title |-> title, subject |-> subject, description |-> description]

Note(username, title, content) ==
    [username |-> username, title |-> title, content |-> content]

Practice(username, date, status) ==
    [username |-> username, date |-> date, status |-> status]

QuizQuestion(subject, text, options, correct_index) ==
    [subject |-> subject, text |-> text, options |-> options,
     correct_index |-> correct_index]

QuizResult(username, subject, total, correct, created_at) ==
    [username |-> username, subject |-> subject, total |-> total,
     correct |-> correct, created_at |-> created_at]

\* Notification(message=...): username and kind take the schema defaults.
Notification(message) ==
    [username |-> "guest", message |-> message, kind |-> "info"]

(*************************** Python expressions ****************************)
\* `x or d` for an Optional[str] x: None and the empty string are falsy.
PyOr(x, d) == IF x = None \/ x = Some("") THEN d ELSE x[1]

\* date.today().isoformat(); a datetime is kept to its day
Isoformat(day) == Days[day]

\* {k: v for k, v in d.items() if k in Model.model_fields}
ModelFieldsOf(doc, fields) == [k \in (DOMAIN doc) \cap fields |-> doc[k]]

\* Model(**{...}): fields missing from the document take the schema defaults.
ProfileFromDoc(doc) ==
    [k \in ProfileFields |->
        IF k \in DOMAIN doc THEN doc[k] ELSE Profile("guest")[k]]

\* Fixed messages are one-element tuples; the quiz f-string keeps its parts.
\* The typographic apostrophe (U+2019) of the practice messages is written '.
Msg(text) == <<text>>
QuizScoreMessage(correct, total) == <<"Your quiz score: ", correct, "/", total>>

(**************************** the document store ***************************)
EmptyStore == [c \in Collections |-> <<>>]

RECURSIVE Matches(_, _)
\* A filter is a record of equalities, or ("$or" :> <<f1, f2, ...>>).
Matches(doc, flt) ==
    IF "$or" \in DOMAIN flt
    THEN \E i \in 1..Len(flt["$or"]) : Matches(doc, flt["$or"][i])
    ELSE \A k \in DOMAIN flt : k \in DOMAIN doc /\ doc[k] = flt[k]

MatchIdx(d, coll, flt) == {i \in 1..Len(d[coll]) : Matches(d[coll][i], flt)}

\* collection.find(filter), as a list in the store's order
Find(d, coll, flt) == SelectSeq(d[coll], LAMBDA doc : Matches(doc, flt))

\* collection.count_documents(filter)
CountDocuments(d, coll, flt) == Cardinality(MatchIdx(d, coll, flt))

\* collection.insert_one(doc): the store adds _id
InsertOne(d, coll, doc, id) ==
    [d EXCEPT ![coll] = Append(@, doc @@ [_id |-> id])]

RemoveAt(s, i) == [j \in 1..(Len(s) - 1) |-> IF j < i THEN s[j] ELSE s[j + 1]]

\* collection.delete_one(filter), having picked the matching document i
DeleteAt(d, coll, i) == [d EXCEPT ![coll] = RemoveAt(@, i)]

\* {"$set": update} applied to one document: update's keys win
SetFields(doc, update) ==
    [k \in (DOMAIN doc) \cup (DOMAIN update) |->
        IF k \in DOMAIN update THEN update[k] ELSE doc[k]]

\* database.create_document(collection_name, data): insert the model's dump
CreateDocument(d, coll, data, id) == InsertOne(d, coll, data, id)

\* database.get_documents(collection_name, filter_dict)
GetDocuments(d, coll, flt) == Find(d, coll, flt)

\* collection.find_one(filter): <<>> for None, <<doc>> for a document; the
\* store promises no order, so any matching document may be the one returned.
FindOne(d, coll, flt) ==
    IF MatchIdx(d, coll, flt) = {} THEN {<<>>}
    ELSE {<<d[coll][i]>> : i \in MatchIdx(d, coll, flt)}

\* collection.delete_one(filter): the stores it may leave, with deleted_count
DeleteOne(d, coll, flt) ==
    IF MatchIdx(d, coll, flt) = {} THEN {[d |-> d, deleted_count |-> 0]}
    ELSE {[d |-> DeleteAt(d, coll, i), deleted_count |-> 1] :
             i \in MatchIdx(d, coll, flt)}

\* collection.update_one(filter, {"$set": update}, upsert=True): one matching
\* document is updated; with none, the filter's equalities and the update
\* are inserted as a new document (an empty $set changes nothing).
UpdateOneUpsert(d, coll, flt, update, id) ==
    IF MatchIdx(d, coll, flt) = {}
    THEN {[d |-> InsertOne(d, coll, SetFields(flt, update), id), id |-> id + 1]}
    ELSE {[d |-> [d EXCEPT ![coll][i] = SetFields(@, update)], id |-> id] :
             i \in MatchIdx(d, coll, flt)}

(********************************* main.py *********************************)
SeedSubjects ==
    <<"Mathematics", "Science", "English", "Computer/ICT", "Social Studies">>

SAMPLE_QUESTIONS ==
    <<QuizQuestion("General", "2 + 2 = ?", <<"3", "4", "5", "6">>, 1),
      QuizQuestion("General", "Capital of France?",
                   <<"Berlin", "Paris", "Madrid", "Rome">>, 1)>>

RECURSIVE ScoreFrom(_, _, _)
\* the loop of submit_quiz from question i (0-based) on, `correct` so far
ScoreFrom(answers, i, correct) ==
    IF i >= Len(SAMPLE_QUESTIONS) THEN correct
    ELSE LET ai == IF i < Len(answers) THEN answers[i + 1] ELSE -1
         IN ScoreFrom(answers, i + 1,
                IF ai = SAMPLE_QUESTIONS[i + 1].correct_index
                THEN correct + 1 ELSE correct)

\* Mutant of QuizCorrect: the loop starts at the second question.
QuizCorrectFromSecond(answers) == ScoreFrom(answers, 1, 0)

QuizCorrect(answers) == ScoreFrom(answers, 0, 0)
QuizTotal == Len(SAMPLE_QUESTIONS)

\* update = {k: v for k, v in payload.model_dump().items()
\*           if v is not None and k != "username"}
\* (full_name is Optional in Profile too, and stays a tuple in the store)
ProfileUpdateDict(payload) ==
    [k \in {k \in DOMAIN payload : payload[k] # None /\ k # "username"} |->
        IF k \in OptionalProfileFields THEN payload[k] ELSE payload[k][1]]

\* Mutant of NotificationFilter: the "guest" branch of $or is missing.
NotificationFilterOwnOnly(username) ==
    "$or" :> <<[username |-> username]>>

NotificationFilter(username) ==
    "$or" :> <<[username |-> username], [username |-> "guest"]>>

\* [{k: v for k, v in d.items() if k in Model.model_fields} for d in docs]
ModelFieldsOfAll(docs, fields) ==
    [i \in 1..Len(docs) |-> ModelFieldsOf(docs[i], fields)]

\* the body of get_notes
NotesOf(d, username) ==
    ModelFieldsOfAll(GetDocuments(d, "note", [username |-> username]), NoteFields)

\* the body of get_notifications
NotificationsOf(d, username) ==
    ModelFieldsOfAll(GetDocuments(d, "notification", NotificationFilter(username)),
                     NotificationFields)

Idle == [w \in Workers |-> [at |-> "idle", op |-> "none", args |-> <<>>]]

Init ==
    /\ db = EmptyStore
    /\ connected \in BOOLEAN
    /\ emptySetRefused \in IF connected THEN BOOLEAN ELSE {FALSE}
    /\ nextId = 1
    /\ today = 1
    /\ utcToday = 1
    /\ last = [op |-> "none", args |-> <<>>, status |-> 0, body |-> <<>>]
    /\ nreq = 0
    /\ primaryDone = [h \in Handlers |-> 0]
    /\ pc = Idle

\* the same, with the store available
InitConc == Init /\ connected = TRUE

\* the start of the specifications none of whose requests sends an empty
\* $set: what the server would do with one makes no difference to them
InitApplying == Init /\ emptySetRefused = FALSE
InitConcApplying == InitConc /\ emptySetRefused = FALSE

\* the server's local date moves on
Tick ==
    /\ today < Len(Days)
    /\ today' = today + 1
    /\ UNCHANGED <<db, connected, emptySetRefused, nextId, utcToday, last, nreq, primaryDone, pc>>

\* the UTC date moves on: before the local date or after it, as the server's
\* zone has it
TickUtc ==
    /\ utcToday < Len(Days)
    /\ utcToday' = utcToday + 1
    /\ UNCHANGED <<db, connected, emptySetRefused, nextId, today, last, nreq, primaryDone, pc>>

\* what a handler reads from the clock before its first store call:
\* start_practice date.today() (line 110), submit_quiz
\* datetime.now(timezone.utc) while it builds the QuizResult (line 150)
ClockRead(op) ==
    CASE op = "start_practice" -> [date |-> Isoformat(today)]
      [] op = "submit_quiz" -> [created_at |-> Isoformat(utcToday)]
      [] OTHER -> <<>>

\* where a handler makes its first store call
FirstAt(op) ==
    CASE op \in {"start_practice", "get_profile"} -> "lookup"
      [] op = "seed_data" -> "count"
      [] op \in {"list_courses", "get_notes", "practice_history", "get_notifications"}
           -> "find"
      [] op = "get_quiz_questions" -> "return"
      [] OTHER -> "primary"

\* Worker w takes a request and runs the handler up to its first store call.
Begin(w, op, args) ==
    /\ pc[w].at \in {"idle", "done"}
    /\ nreq < MaxRequests
    /\ nreq' = nreq + 1
    /\ pc' = [pc EXCEPT ![w] =
                [at |-> FirstAt(op), op |-> op, args |-> args] @@ ClockRead(op)]
    /\ UNCHANGED <<db, connected, emptySetRefused, nextId, today, utcToday, last, primaryDone>>

\* a request taken while no other request is being handled
BeginAlone(w, op, args) ==
    /\ \A v \in Workers : pc[v].at \in {"idle", "done"}
    /\ Begin(w, op, args)

Goto(w, at) == pc' = [pc EXCEPT ![w].at = at] /\ UNCHANGED last

\* the handler returns (or raises); `last` keeps the response
Finish(w, status, body) ==
    /\ pc' = [pc EXCEPT ![w] = [at |-> "done", op |-> "none", args |-> <<>>]]
    /\ last' = [op |-> pc[w].op, args |-> pc[w].args, status |-> status, body |-> body]

Same == UNCHANGED <<connected, emptySetRefused, today, utcToday, nreq>>
NoWrite == UNCHANGED <<db, nextId, primaryDone>>

\* db is None: HTTPException(500), or create_document / get_documents raising
Unavailable(w) ==
    /\ ~connected
    /\ Finish(w, 500, <<>>)
    /\ NoWrite /\ Same

\* the primary write of handler h reached the store
Primary(h) == primaryDone' = [primaryDone EXCEPT ![h] = @ + 1]

\* create_document("notification", Notification(message=...)), then return
Notify(w, message, body) ==
    /\ pc[w].at = "notify"
    /\ db' = CreateDocument(db, "notification", Notification(message), nextId)
    /\ nextId' = nextId + 1
    /\ Finish(w, 200, body)
    /\ UNCHANGED primaryDone /\ Same

\* one store call that only reads, then return
Read(w, body) ==
    /\ pc[w].at = "find"
    /\ \/ Unavailable(w)
       \/ connected /\ Finish(w, 200, body) /\ NoWrite /\ Same

\* POST /seed.  `if db` takes the truth value of the handle: with no handle it
\* is falsy and nothing is written; a handle whose class refuses bool() (a
\* pymongo Database) raises there, any other handle is truthy.
SeedData(w) ==
    /\ pc[w].op = "seed_data"
    /\ \/ /\ pc[w].at = "count"
          /\ \/ ~connected /\ Finish(w, 200, [status |-> "ok"])
             \/ connected /\ Finish(w, 500, <<>>)
             \/ /\ connected
                /\ IF CountDocuments(db, "course", <<>>) = 0
                   THEN /\ pc' = [pc EXCEPT ![w] = [i |-> 1] @@ [@ EXCEPT !.at = "course"]]
                        /\ UNCHANGED last
                   ELSE Finish(w, 200, [status |-> "ok"])
          /\ NoWrite /\ Same
       \/ /\ pc[w].at = "course"
          /\ db' = CreateDocument(db, "course",
                       Course(SeedSubjects[pc[w].i], SeedSubjects[pc[w].i],
                              <<"Intro to ", SeedSubjects[pc[w].i]>>), nextId)
          /\ nextId' = nextId + 1
          /\ pc' = [pc EXCEPT ![w] =
                      IF pc[w].i < Len(SeedSubjects)
                      THEN [@ EXCEPT !.i = @ + 1] ELSE [@ EXCEPT !.at = "notify"]]
          /\ UNCHANGED <<last, primaryDone>> /\ Same
       \/ Notify(w, Msg("New course added!"), [status |-> "ok"])

\* GET /courses
ListCourses(w) ==
    /\ pc[w].op = "list_courses"
    /\ Read(w, ModelFieldsOfAll(GetDocuments(db, "course", <<>>), CourseFields))

\* GET /notes
GetNotes(w) ==
    /\ pc[w].op = "get_notes"
    /\ Read(w, NotesOf(db, pc[w].args.username))

\* Mutant of AddNote: the Notification is addressed to the note's owner.
AddNoteNotifyOwner(w) ==
    /\ pc[w].op = "add_note"
    /\ \/ pc[w].at = "primary" /\ Unavailable(w)
       \/ /\ pc[w].at = "primary"
          /\ connected
          /\ db' = CreateDocument(db, "note",
                       Note(PyOr(pc[w].args.username, "guest"), pc[w].args.title,
                            pc[w].args.content), nextId)
          /\ nextId' = nextId + 1
          /\ Primary("add_note")
          /\ pc' = [pc EXCEPT ![w] = [note_id |-> nextId] @@ [@ EXCEPT !.at = "notify"]]
          /\ UNCHANGED last /\ Same
       \/ /\ pc[w].at = "notify"
          /\ db' = CreateDocument(db, "notification",
                       [Notification(Msg("New note saved")) EXCEPT
                           !.username = PyOr(pc[w].args.username, "guest")], nextId)
          /\ nextId' = nextId + 1
          /\ Finish(w, 200, [message |-> "Note saved successfully", id |-> pc[w].note_id])
          /\ UNCHANGED primaryDone /\ Same

\* Mutant of AddNote: a note with the same (username, title) is overwritten.
AddNoteReplace(w) ==
    /\ pc[w].op = "add_note"
    /\ \/ pc[w].at = "primary" /\ Unavailable(w)
       \/ /\ pc[w].at = "primary"
          /\ connected
          /\ \E r \in UpdateOneUpsert(db, "note",
                         [username |-> PyOr(pc[w].args.username, "guest"),
                          title |-> pc[w].args.title],
                         [content |-> pc[w].args.content], nextId) :
               db' = r.d /\ nextId' = r.id
          /\ Primary("add_note")
          /\ pc' = [pc EXCEPT ![w] = [note_id |-> nextId] @@ [@ EXCEPT !.at = "notify"]]
          /\ UNCHANGED last /\ Same
       \/ Notify(w, Msg("New note saved"),
                 [message |-> "Note saved successfully", id |-> pc[w].note_id])

\* Mutant of AddNote: the Notification is written before the note.
AddNoteNotifyFirst(w) ==
    /\ pc[w].op = "add_note"
    /\ \/ pc[w].at = "primary" /\ Unavailable(w)
       \/ /\ pc[w].at = "primary"
          /\ connected
          /\ db' = CreateDocument(db, "notification",
                       Notification(Msg("New note saved")), nextId)
          /\ nextId' = nextId + 1
          /\ Goto(w, "notify")
          /\ UNCHANGED primaryDone /\ Same
       \/ /\ pc[w].at = "notify"
          /\ db' = CreateDocument(db, "note",
                       Note(PyOr(pc[w].args.username, "guest"), pc[w].args.title,
                            pc[w].args.content), nextId)
          /\ nextId' = nextId + 1
          /\ Primary("add_note")
          /\ Finish(w, 200, [message |-> "Note saved successfully", id |-> nextId])
          /\ Same

\* POST /notes
AddNote(w) ==
    /\ pc[w].op = "add_note"
    /\ \/ pc[w].at = "primary" /\ Unavailable(w)
       \/ /\ pc[w].at = "primary"
          /\ connected
          /\ db' = CreateDocument(db, "note",
                       Note(PyOr(pc[w].args.username, "guest"), pc[w].args.title,
                            pc[w].args.content), nextId)
          /\ nextId' = nextId + 1
          /\ Primary("add_note")
          /\ pc' = [pc EXCEPT ![w] = [note_id |-> nextId] @@ [@ EXCEPT !.at = "notify"]]
          /\ UNCHANGED last /\ Same
       \/ Notify(w, Msg("New note saved"),
                 [message |-> "Note saved successfully", id |-> pc[w].note_id])

\* Mutant of DeleteNote: delete_many in place of delete_one.
DeleteNoteMany(w) ==
    LET hit(doc) == doc.username = pc[w].args.username /\ doc.title = pc[w].args.title
        kept == SelectSeq(db["note"], LAMBDA doc : ~hit(doc)) IN
    /\ pc[w].op = "delete_note"
    /\ \/ pc[w].at = "primary" /\ Unavailable(w)
       \/ /\ pc[w].at = "primary"
          /\ connected
          /\ db' = [db EXCEPT !["note"] = kept]
          /\ IF Len(kept) = Len(db["note"])
             THEN /\ Finish(w, 404, "Note not found")
                  /\ UNCHANGED primaryDone
             ELSE /\ Goto(w, "notify")
                  /\ Primary("delete_note")
          /\ UNCHANGED nextId /\ Same
       \/ Notify(w, Msg("Note deleted successfully"),
                 [message |-> "Note deleted successfully"])

\* DELETE /notes/{title}
DeleteNote(w) ==
    /\ pc[w].op = "delete_note"
    /\ \/ pc[w].at = "primary" /\ Unavailable(w)
       \/ /\ pc[w].at = "primary"
          /\ connected
          /\ \E result \in DeleteOne(db, "note",
                              [username |-> pc[w].args.username, title |-> pc[w].args.title]) :
               /\ db' = result.d
               /\ IF result.deleted_count = 0
                  THEN /\ Finish(w, 404, "Note not found")
                       /\ UNCHANGED primaryDone
                  ELSE /\ Goto(w, "notify")
                       /\ Primary("delete_note")
          /\ UNCHANGED nextId /\ Same
       \/ Notify(w, Msg("Note deleted successfully"),
                 [message |-> "Note deleted successfully"])

\* Mutant of StartPractice: the find_one check is missing.
StartPracticeNoCheck(w) ==
    /\ pc[w].op = "start_practice"
    /\ \/ pc[w].at = "lookup" /\ Unavailable(w)
       \/ /\ pc[w].at = "lookup"
          /\ connected
          /\ Goto(w, "primary")
          /\ NoWrite /\ Same
       \/ /\ pc[w].at = "primary"
          /\ db' = CreateDocument(db, "practice",
                       Practice(pc[w].args.username, pc[w].date, "completed"), nextId)
          /\ nextId' = nextId + 1
          /\ Primary("start_practice")
          /\ Goto(w, "notify")
          /\ Same
       \/ Notify(w, Msg("Start today's practice"),
                 [message |-> "Practice saved successfully"])

\* Mutant of StartPractice: the insert is skipped when the store already
\* holds the (username, date), as under a unique index whose error is dropped.
StartPracticeUnique(w) ==
    /\ pc[w].op = "start_practice"
    /\ \/ pc[w].at = "lookup" /\ Unavailable(w)
       \/ /\ pc[w].at = "lookup"
          /\ connected
          /\ \E existing \in FindOne(db, "practice",
                                [username |-> pc[w].args.username, date |-> pc[w].date]) :
               IF existing # <<>>
               THEN Finish(w, 200,
                      [message |-> "You have completed today's practice, try again tomorrow"])
               ELSE Goto(w, "primary")
          /\ NoWrite /\ Same
       \/ /\ pc[w].at = "primary"
          /\ IF MatchIdx(db, "practice",
                    [username |-> pc[w].args.username, date |-> pc[w].date]) = {}
             THEN /\ db' = CreateDocument(db, "practice",
                              Practice(pc[w].args.username, pc[w].date, "completed"),
                              nextId)
                  /\ nextId' = nextId + 1
                  /\ Primary("start_practice")
             ELSE UNCHANGED <<db, nextId, primaryDone>>
          /\ Goto(w, "notify")
          /\ Same
       \/ Notify(w, Msg("Start today's practice"),
                 [message |-> "Practice saved successfully"])

\* POST /practice/start
StartPractice(w) ==
    /\ pc[w].op = "start_practice"
    /\ \/ pc[w].at = "lookup" /\ Unavailable(w)
       \/ /\ pc[w].at = "lookup"
          /\ connected
          /\ \E existing \in FindOne(db, "practice",
                                [username |-> pc[w].args.username, date |-> pc[w].date]) :
               IF existing # <<>>
               THEN Finish(w, 200,
                      [message |-> "You have completed today's practice, try again tomorrow"])
               ELSE Goto(w, "primary")
          /\ NoWrite /\ Same
       \/ /\ pc[w].at = "primary"
          /\ db' = CreateDocument(db, "practice",
                       Practice(pc[w].args.username, pc[w].date, "completed"), nextId)
          /\ nextId' = nextId + 1
          /\ Primary("start_practice")
          /\ Goto(w, "notify")
          /\ Same
       \/ Notify(w, Msg("Start today's practice"),
                 [message |-> "Practice saved successfully"])

\* GET /practice/history
PracticeHistory(w) ==
    /\ pc[w].op = "practice_history"
    /\ Read(w, ModelFieldsOfAll(
                  GetDocuments(db, "practice", [username |-> pc[w].args.username]),
                  {"date", "status"}))

\* GET /quiz/questions: the subject is not looked at, and no store is needed
GetQuizQuestions(w) ==
    /\ pc[w].op = "get_quiz_questions"
    /\ pc[w].at = "return"
    /\ Finish(w, 200, SAMPLE_QUESTIONS)
    /\ NoWrite /\ Same

\* POST /quiz/submit.  created_at, the UTC instant read while the document
\* is built, before the first store call, is kept to its day.
SubmitQuiz(w) ==
    LET total == QuizTotal
        correct == QuizCorrect(pc[w].args.answers) IN
    /\ pc[w].op = "submit_quiz"
    /\ \/ pc[w].at = "primary" /\ Unavailable(w)
       \/ /\ pc[w].at = "primary"
          /\ connected
          /\ db' = CreateDocument(db, "quizresult",
                       QuizResult(PyOr(pc[w].args.username, "guest"),
                                  PyOr(pc[w].args.subject, "General"),
                                  total, correct, pc[w].created_at), nextId)
          /\ nextId' = nextId + 1
          /\ Primary("submit_quiz")
          /\ Goto(w, "notify")
          /\ Same
       \/ Notify(w, QuizScoreMessage(correct, total),
                 [message |-> "You have completed the quiz!", correct |-> correct,
                  total |-> total])

\* Mutant of GetProfile: the default is created without looking one up.
GetProfileNoLookup(w) ==
    /\ pc[w].op = "get_profile"
    /\ \/ pc[w].at = "lookup" /\ Unavailable(w)
       \/ /\ pc[w].at = "lookup"
          /\ connected
          /\ Goto(w, "insert")
          /\ NoWrite /\ Same
       \/ /\ pc[w].at = "insert"
          /\ db' = CreateDocument(db, "profile", Profile(pc[w].args.username), nextId)
          /\ nextId' = nextId + 1
          /\ Finish(w, 200, Profile(pc[w].args.username))
          /\ UNCHANGED primaryDone /\ Same

\* GET /profile
GetProfile(w) ==
    /\ pc[w].op = "get_profile"
    /\ \/ pc[w].at = "lookup" /\ Unavailable(w)
       \/ /\ pc[w].at = "lookup"
          /\ connected
          /\ \E doc \in FindOne(db, "profile", [username |-> pc[w].args.username]) :
               IF doc = <<>>
               THEN Goto(w, "insert")
               ELSE Finish(w, 200, ProfileFromDoc(ModelFieldsOf(doc[1], ProfileFields)))
          /\ NoWrite /\ Same
       \/ /\ pc[w].at = "insert"
          /\ db' = CreateDocument(db, "profile", Profile(pc[w].args.username), nextId)
          /\ nextId' = nextId + 1
          /\ Finish(w, 200, Profile(pc[w].args.username))
          /\ UNCHANGED primaryDone /\ Same

\* update_one raises: the server refuses {"$set": {}} (MongoDB before 5.0
\* answers with a WriteError, later servers apply it and change nothing)
UpdateRefused(update) == emptySetRefused /\ DOMAIN update = {}

\* Mutant of UpdateProfile: the schema defaults are written with the update.
UpdateProfileWithDefaults(w) ==
    LET username == PyOr(pc[w].args.username, "guest")
        update == ProfileUpdateDict(pc[w].args) IN
    /\ pc[w].op = "update_profile"
    /\ \/ pc[w].at = "primary" /\ Unavailable(w)
       \/ /\ pc[w].at = "primary"
          /\ connected
          /\ UpdateRefused(update)
          /\ Finish(w, 500, <<>>)
          /\ NoWrite /\ Same
       \/ /\ pc[w].at = "primary"
          /\ connected
          /\ ~UpdateRefused(update)
          /\ \E r \in UpdateOneUpsert(db, "profile", [username |-> username],
                         update @@ [full_name |-> None, language |-> "en",
                                    push_notifications |-> PyTrue], nextId) :
               db' = r.d /\ nextId' = r.id
          /\ Primary("update_profile")
          /\ Goto(w, "notify")
          /\ Same
       \/ Notify(w, Msg("Profile updated"), [message |-> "Saved successfully"])

\* POST /profile.  An update with no field is sent as {"$set": {}}: where the
\* server applies it, it changes no field of a stored profile and upserts the
\* username alone; where the server refuses it, update_one raises and the
\* error leaves the handler before the Notification.
UpdateProfile(w) ==
    LET username == PyOr(pc[w].args.username, "guest")
        update == ProfileUpdateDict(pc[w].args) IN
    /\ pc[w].op = "update_profile"
    /\ \/ pc[w].at = "primary" /\ Unavailable(w)
       \/ /\ pc[w].at = "primary"
          /\ connected
          /\ UpdateRefused(update)
          /\ Finish(w, 500, <<>>)
          /\ NoWrite /\ Same
       \/ /\ pc[w].at = "primary"
          /\ connected
          /\ ~UpdateRefused(update)
          /\ \E r \in UpdateOneUpsert(db, "profile", [username |-> username],
                                      update, nextId) :
               db' = r.d /\ nextId' = r.id
          /\ Primary("update_profile")
          /\ Goto(w, "notify")
          /\ Same
       \/ Notify(w, Msg("Profile updated"), [message |-> "Saved successfully"])

\* GET /notifications
GetNotifications(w) ==
    /\ pc[w].op = "get_notifications"
    /\ Read(w, NotificationsOf(db, pc[w].args.username))

\* The process stops: the requests in flight are lost, the store keeps what
\* it was sent.
Crash ==
    /\ \E w \in Workers : pc[w].at \notin {"idle", "done"}
    /\ pc' = Idle
    /\ UNCHANGED <<db, connected, emptySetRefused, nextId, today, utcToday, last, nreq, primaryDone>>

(****************************** specifications *****************************)
NoteCreates ==
    [username : PayloadUsernames, title : Titles, content : Contents]
QuizAnswers(lists, subjects, usernames) ==
    [answers : lists, subject : subjects, username : usernames]
ProfileUpdates(usernames) ==
    [username : usernames, full_name : FullNames, language : Languages,
     push_notifications : PushValues]
ByUser(usernames) == [username : usernames]

\* Every handler, each on a few inputs, requests side by side.
Requests ==
    ({"seed_data", "list_courses"} \X {<<>>})
    \cup ({"get_notes", "practice_history", "start_practice", "get_profile"}
            \X ByUser({"alice"}))
    \cup ({"add_note"} \X [username : {Some("alice")}, title : {"t1"}, content : {"c1"}])
    \cup ({"delete_note"} \X [username : {"alice"}, title : {"t1"}])
    \cup ({"get_notifications"} \X ByUser(QueryUsernames))
    \cup ({"get_quiz_questions"} \X [subject : {Some("General")}])
    \cup ({"submit_quiz"} \X QuizAnswers({<<1, 0>>}, {None}, {Some("alice")}))
    \cup ({"update_profile"} \X
            [username : {Some("alice")}, full_name : {None}, language : {None, Some("fr")},
             push_notifications : {None}])

Next ==
    \/ Tick
    \/ TickUtc
    \/ \E w \in Workers, r \in Requests : nreq < MaxRequestsWide /\ Begin(w, r[1], r[2])
    \/ \E w \in Workers : SeedData(w)
    \/ \E w \in Workers : ListCourses(w)
    \/ \E w \in Workers : GetNotes(w)
    \/ \E w \in Workers : AddNote(w)
    \/ \E w \in Workers : DeleteNote(w)
    \/ \E w \in Workers : StartPractice(w)
    \/ \E w \in Workers : PracticeHistory(w)
    \/ \E w \in Workers : GetQuizQuestions(w)
    \/ \E w \in Workers : SubmitQuiz(w)
    \/ \E w \in Workers : GetProfile(w)
    \/ \E w \in Workers : UpdateProfile(w)
    \/ \E w \in Workers : GetNotifications(w)

Spec == Init /\ [][Next]_vars

\* Notes, requests side by side
NoteRequests ==
    ({"get_notes"} \X ByUser(QueryUsernames \cup {""}))
    \cup ({"add_note"} \X {n \in NoteCreates : n.content = "c1" \/ n.username = Some("alice")})
    \cup ({"delete_note"} \X [username : QueryUsernames, title : Titles])

NextNotes ==
    \/ \E w \in Workers, r \in NoteRequests : Begin(w, r[1], r[2])
    \/ \E w \in Workers : GetNotes(w)
    \/ \E w \in Workers : AddNote(w)
    \/ \E w \in Workers : DeleteNote(w)

SpecNotes == InitApplying /\ [][NextNotes]_vars

\* Practice, one request after another
PracticeRequests ==
    {"start_practice", "practice_history"} \X ByUser(QueryUsernames \cup {"bob"})

NextPractice ==
    \/ Tick
    \/ \E w \in Workers, r \in PracticeRequests : BeginAlone(w, r[1], r[2])
    \/ \E w \in Workers : StartPractice(w)
    \/ \E w \in Workers : PracticeHistory(w)

SpecPractice == InitApplying /\ [][NextPractice]_vars

\* Quiz, one request after another, all served by one thread of the pool
QuizWorker == {"w1"}
QuizRequests ==
    ({"get_quiz_questions"} \X [subject : Subjects])
    \cup ({"submit_quiz"} \X QuizAnswers(AnswerLists, {None}, {None}))

NextQuiz ==
    \/ TickUtc
    \/ \E w \in QuizWorker, r \in QuizRequests :
         nreq < MaxRequestsWide /\ BeginAlone(w, r[1], r[2])
    \/ \E w \in Workers : GetQuizQuestions(w)
    \/ \E w \in Workers : SubmitQuiz(w)

SpecQuiz == InitApplying /\ [][NextQuiz]_vars

\* Profile, one request after another
ProfileRequests ==
    ({"get_profile"} \X ByUser(QueryUsernames))
    \cup ({"update_profile"} \X ProfileUpdates({None, Some("alice")}))

NextProfile ==
    \/ \E w \in Workers, r \in ProfileRequests : BeginAlone(w, r[1], r[2])
    \/ \E w \in Workers : GetProfile(w)
    \/ \E w \in Workers : UpdateProfile(w)

SpecProfile == Init /\ [][NextProfile]_vars

\* Profile, requests side by side
ProfileConcRequests ==
    ({"get_profile"} \X ByUser(QueryUsernames))
    \cup ({"update_profile"} \X ProfileUpdates({Some("alice")}))

NextProfileConc ==
    \/ \E w \in Workers, r \in ProfileConcRequests : Begin(w, r[1], r[2])
    \/ \E w \in Workers : GetProfile(w)
    \/ \E w \in Workers : UpdateProfile(w)

SpecProfileConc == InitConc /\ [][NextProfileConc]_vars

\* Notifications: the listing over any stored notifications
StoredNotifications ==
    UNION {[1..n -> [username : {"guest", "alice", "bob"},
                     message : {Msg("New note saved"), Msg("Profile updated")},
                     kind : {"info"}, _id : {0}]] : n \in 0..MaxStored}

InitNotifications ==
    /\ \E s \in StoredNotifications :
         db = [EmptyStore EXCEPT !["notification"] = [i \in 1..Len(s) |-> [s[i] EXCEPT !._id = i]]]
    /\ connected \in BOOLEAN
    /\ emptySetRefused = FALSE
    /\ nextId = Len(db["notification"]) + 1
    /\ today = 1
    /\ utcToday = 1
    /\ last = [op |-> "none", args |-> <<>>, status |-> 0, body |-> <<>>]
    /\ nreq = 0
    /\ primaryDone = [h \in Handlers |-> 0]
    /\ pc = Idle

NextNotifications ==
    \/ \E w \in Workers, u \in {"guest", "alice", "bob", "carol"} :
         Begin(w, "get_notifications", [username |-> u])
    \/ \E w \in Workers : GetNotifications(w)

SpecNotifications == InitNotifications /\ [][NextNotifications]_vars

\* The handlers that write, requests side by side, with the store available
ConcRequests ==
    ({"seed_data"} \X {<<>>})
    \cup ({"add_note"} \X [username : {Some("alice")}, title : {"t1"}, content : {"c1"}])
    \cup ({"delete_note"} \X [username : {"alice"}, title : {"t1"}])
    \cup ({"start_practice"} \X ByUser(QueryUsernames))
    \cup ({"submit_quiz"} \X QuizAnswers({<<1, 0>>}, {None}, {None}))
    \cup ({"get_profile"} \X ByUser({"alice"}))
    \cup ({"update_profile"} \X
            [username : {Some("alice")}, full_name : {None}, language : {Some("fr")},
             push_notifications : {None}])

NextConc ==
    \/ Tick
    \/ TickUtc
    \/ \E w \in Workers, r \in ConcRequests : nreq < MaxRequestsWide /\ Begin(w, r[1], r[2])
    \/ \E w \in Workers : SeedData(w)
    \/ \E w \in Workers : AddNote(w)
    \/ \E w \in Workers : DeleteNote(w)
    \/ \E w \in Workers : StartPractice(w)
    \/ \E w \in Workers : SubmitQuiz(w)
    \/ \E w \in Workers : GetProfile(w)
    \/ \E w \in Workers : UpdateProfile(w)
    \/ Crash

SpecConc == InitConcApplying /\ [][NextConc]_vars

(********************************* claims **********************************)
\* Worker w, handling a request for `op`, takes the step it has at `at`.
Took(w, op, at) ==
    /\ pc[w].op = op
    /\ pc[w].at = at
    /\ pc'[w] # pc[w]
    /\ pc'[w].at # "idle"
Went(w, at) == pc'[w].at = at
\* the step ends the request of w with this response
Returned(w, status, body) ==
    /\ pc'[w].at = "done"
    /\ last' = [op |-> pc[w].op, args |-> pc[w].args, status |-> status, body |-> body]

Range(s) == {s[i] : i \in 1..Len(s)}
Last(s) == s[Len(s)]
Front(s, n) == SubSeq(s, 1, n)
Others(d, d2, colls) == \A c \in Collections \ colls : d2[c] = d[c]
CountIn(s, x) == Cardinality({i \in 1..Len(s) : s[i] = x})

\* the step appended exactly one Notification, addressed and worded as given
Notified(message) ==
    /\ Len(db'["notification"]) = Len(db["notification"]) + 1
    /\ Front(db'["notification"], Len(db["notification"])) = db["notification"]
    /\ ModelFieldsOf(Last(db'["notification"]), NotificationFields) =
          [username |-> "guest", message |-> message, kind |-> "info"]
    /\ Others(db, db', {"notification"})

PracticeAt(d, u, date) ==
    {i \in 1..Len(d["practice"]) :
        d["practice"][i].username = u /\ d["practice"][i].date = date}

SavedMessage == [message |-> "Practice saved successfully"]
AlreadyMessage ==
    [message |-> "You have completed today's practice, try again tomorrow"]

C1_OnePerDay ==
    \A i, j \in 1..Len(db["practice"]) :
        (/\ db["practice"][i].username = db["practice"][j].username
         /\ db["practice"][i].date = db["practice"][j].date) => i = j

C1_Step ==
    \A w \in Workers :
        LET u == pc[w].args.username
            date == pc[w].date
        IN  /\ (Took(w, "start_practice", "lookup") /\ connected) =>
                  /\ db' = db
                  /\ IF PracticeAt(db, u, date) = {}
                     THEN Went(w, "primary")
                     ELSE Returned(w, 200, AlreadyMessage)
            /\ Took(w, "start_practice", "primary") =>
                  /\ db'["practice"] =
                        Append(db["practice"],
                               [username |-> u, date |-> date, status |-> "completed",
                                _id |-> nextId])
                  /\ Others(db, db', {"practice"})
                  /\ Went(w, "notify")
            /\ Took(w, "start_practice", "notify") =>
                  /\ Notified(Msg("Start today's practice"))
                  /\ Returned(w, 200, SavedMessage)

\* C1: with start_practice calls run one after another, the practice
\* collection never holds two records with the same (username, date): a call
\* that finds no record of the day inserts one "completed" Practice record,
\* then one Notification, and answers "saved"; every later call of that
\* username and date answers "already completed" and changes no collection.
C1_OncePerDay == []C1_OnePerDay /\ [][C1_Step]_vars

\* a later call of the same day has been answered, on the second day
C1_Witness ==
    /\ last.op = "start_practice"
    /\ last.status = 200
    /\ last.body = AlreadyMessage
    /\ today = 2
    /\ Len(db["practice"]) = 2
    /\ Len(db["notification"]) = 2

C2_Step ==
    \A w \in Workers :
        LET u == pc[w].args.username
            date == pc[w].date
        IN  /\ (Took(w, "start_practice", "lookup") /\ PracticeAt(db, u, date) = {}) =>
                  Went(w, "primary")
            /\ (Took(w, "start_practice", "primary") /\ PracticeAt(db, u, date) # {}) =>
                  /\ Cardinality(PracticeAt(db', u, date)) =
                        Cardinality(PracticeAt(db, u, date)) + 1
                  /\ Went(w, "notify")
            /\ Took(w, "start_practice", "notify") => Returned(w, 200, SavedMessage)

\* C2: two start_practice requests of one username and date that both run
\* their lookup before either inserts both go on to insert: the insert of the
\* second adds a record although the collection already holds one of that
\* (username, date), and both requests answer "saved".
C2_BothInsert == [][C2_Step]_vars

\* two requests, both answered "saved" (each wrote its Notification as it
\* returned), and two records of one (username, date)
C2_Witness ==
    /\ nreq = 2
    /\ \A w \in Workers : pc[w].at = "done"
    /\ last.op = "start_practice"
    /\ last.body = SavedMessage
    /\ Len(db["notification"]) = 2
    /\ \A i \in 1..2 : db["notification"][i].message = Msg("Start today's practice")
    /\ Cardinality(PracticeAt(db, last.args.username, Days[1])) = 2

NotesAt(d, u, t) ==
    {i \in 1..Len(d["note"]) : d["note"][i].username = u /\ d["note"][i].title = t}
NotesNotAt(d, u, t) ==
    SelectSeq(d["note"], LAMBDA n : ~(n.username = u /\ n.title = t))

C3_Step ==
    \A w \in Workers :
        LET u == pc[w].args.username
            t == pc[w].args.title
            k == Cardinality(NotesAt(db, u, t))
        IN  /\ (Took(w, "delete_note", "primary") /\ connected) =>
                  IF k = 0
                  THEN Returned(w, 404, "Note not found") /\ db' = db
                  ELSE /\ Went(w, "notify")
                       /\ Cardinality(NotesAt(db', u, t)) = k - 1
                       /\ Len(db'["note"]) = Len(db["note"]) - 1
                       /\ Range(db'["note"]) \subseteq Range(db["note"])
                       /\ NotesNotAt(db', u, t) = NotesNotAt(db, u, t)
                       /\ Others(db, db', {"note"})
            /\ Took(w, "delete_note", "notify") =>
                  /\ Notified(Msg("Note deleted successfully"))
                  /\ Returned(w, 200, [message |-> "Note deleted successfully"])

\* C3: delete_note(username, title) with the store available: with no
\* matching note it answers 404 and changes nothing; with k >= 1 matching
\* notes it removes exactly one of them, leaves every other note as it was,
\* and then appends one "Note deleted successfully" Notification.
C3_DeleteRemovesOne == [][C3_Step]_vars

\* a delete succeeded and a note with the same (username, title) remains
C3_Witness ==
    /\ last.op = "delete_note"
    /\ last.status = 200
    /\ NotesAt(db, last.args.username, last.args.title) # {}

\* the stored notes of u as a listing shows them
ListedNotes(d, u) ==
    LET mine == SelectSeq(d["note"], LAMBDA n : n.username = u)
    IN  [i \in 1..Len(mine) |->
            [username |-> mine[i].username, title |-> mine[i].title,
             content |-> mine[i].content]]

C4_Add ==
    \A w \in Workers :
        LET u == IF pc[w].args.username \in {<<>>, <<"">>} THEN "guest"
                 ELSE pc[w].args.username[1]
            n == [username |-> u, title |-> pc[w].args.title,
                  content |-> pc[w].args.content]
        IN  /\ (Took(w, "add_note", "primary") /\ connected) =>
                  /\ Went(w, "notify")
                  /\ ListedNotes(db', u) = Append(ListedNotes(db, u), n)
                  /\ Len(db'["note"]) = Len(db["note"]) + 1
                  /\ Front(db'["note"], Len(db["note"])) = db["note"]
                  /\ ListedNotes(db', "") = <<>>
            /\ Took(w, "add_note", "notify") =>
                  /\ Returned(w, 200, [message |-> "Note saved successfully",
                                       id |-> pc[w].note_id])
                  /\ db'["note"] = db["note"]

C4_List ==
    \A w \in Workers :
        (Took(w, "get_notes", "find") /\ connected) =>
            Returned(w, 200, ListedNotes(db, pc[w].args.username)) /\ db' = db

C4_Keep ==
    \A u \in QueryUsernames : \A n \in Range(ListedNotes(db, u)) :
        \/ CountIn(ListedNotes(db', u), n) >= CountIn(ListedNotes(db, u), n)
        \/ \E w \in Workers :
              /\ Took(w, "delete_note", "primary")
              /\ pc[w].args = [title |-> n.title, username |-> u]
              /\ Went(w, "notify")

\* C4 (as amended): add_note stores the note for u, the payload's username,
\* or "guest" when that username is null or empty, before it answers;
\* get_notes(u) returns every stored note of u, so it lists the note from
\* then on, until a delete_note of that (u, title) removes a record; no note
\* is ever stored for the empty username, so get_notes("") lists nothing;
\* add_note neither rejects nor overwrites a duplicate: every creation adds
\* one record.
C4_AddedNoteIsListed == [][C4_Add /\ C4_List /\ C4_Keep]_vars

\* two creations for guest with one title are both stored, none for another
\* username, and get_notes("") has returned the empty list
C4_Witness ==
    /\ last.op = "get_notes"
    /\ last.args.username = ""
    /\ last.status = 200
    /\ last.body = <<>>
    /\ Len(ListedNotes(db, "guest")) = 2
    /\ \E t \in Titles : Cardinality(NotesAt(db, "guest", t)) = 2
    /\ Len(ListedNotes(db, "alice")) = 0

C4_Written ==
    \A w \in Workers :
        LET asked == IF pc[w].args.username = <<>> THEN "guest"
                     ELSE pc[w].args.username[1]
        IN  (Took(w, "add_note", "primary") /\ connected) =>
                \E n \in Range(ListedNotes(db', asked)) :
                    /\ n.title = pc[w].args.title
                    /\ n.content = pc[w].args.content

\* C4 (as written): after add_note(username, title, content) has stored the
\* note, get_notes(username), with that very username, lists a note with
\* that title and content.
C4_ListedUnderSameUsername == [][C4_Written]_vars

\* the number of bank positions that `a` answers with the right index
Score(a) ==
    Cardinality({i \in {0, 1} : i < Len(a) /\ a[i + 1] = SAMPLE_QUESTIONS[i + 1].correct_index})

C5_Step ==
    \A w \in Workers :
        LET a == pc[w].args.answers IN
        /\ (Took(w, "submit_quiz", "primary") /\ connected) =>
              /\ Went(w, "notify")
              /\ Len(db'["quizresult"]) = Len(db["quizresult"]) + 1
              /\ Last(db'["quizresult"]).correct = Score(a)
              /\ Last(db'["quizresult"]).total = 2
        /\ Took(w, "submit_quiz", "notify") =>
              /\ Returned(w, 200, [message |-> "You have completed the quiz!",
                                   correct |-> Score(a), total |-> 2])
              /\ db'["quizresult"] = db["quizresult"]
              /\ Score(a) >= 0 /\ Score(a) <= 2
              /\ (a = <<1, 1>> => last'.body.correct = 2)
              /\ (a = <<>> => last'.body.correct = 0)
              /\ (Len(a) > 2 => last'.body.correct = Score(SubSeq(a, 1, 2)))

\* C5: submit_quiz stores and answers total = 2 and correct = the number of
\* positions i in {0, 1} with i < len(answers) and answers[i] =
\* bank[i].correct_index, whatever the length and the values of answers;
\* [1, 1] scores 2, [] scores 0, positions past the bank are ignored, and
\* 0 <= correct <= total.
C5_QuizScore == [][C5_Step]_vars

\* a wrong negative answer, a right one and a third answer that is ignored
C5_Witness ==
    /\ last.op = "submit_quiz"
    /\ last.status = 200
    /\ last.args.answers = <<-1, 1, 1>>
    /\ last.body.correct = 1
    /\ Last(db["quizresult"]).correct = 1

ProfilesOf(d, u) ==
    {i \in 1..Len(d["profile"]) : d["profile"][i].username = u}

C6_OnePerUser ==
    \A u \in QueryUsernames : Cardinality(ProfilesOf(db, u)) <= 1

C6_Step ==
    \A w \in Workers :
        LET u == pc[w].args.username
            default == [username |-> u, full_name |-> <<>>, language |-> "en",
                        push_notifications |-> TRUE]
        IN  /\ (Took(w, "get_profile", "lookup") /\ connected) =>
                  /\ db' = db
                  /\ IF ProfilesOf(db, u) = {}
                     THEN Went(w, "insert")
                     ELSE /\ pc'[w].at = "done"
                          /\ last'.status = 200
                          /\ \E i \in ProfilesOf(db, u) :
                                \A k \in ProfileFields \cap DOMAIN db["profile"][i] :
                                    last'.body[k] = db["profile"][i][k]
            /\ Took(w, "get_profile", "insert") =>
                  /\ db'["profile"] = Append(db["profile"], default @@ [_id |-> nextId])
                  /\ Others(db, db', {"profile"})
                  /\ Returned(w, 200, default)

C6_Again ==
    \A w \in Workers :
        (/\ Took(w, "get_profile", "lookup")
         /\ last.op = "get_profile" /\ last.status = 200
         /\ last.args = pc[w].args) =>
            /\ Returned(w, 200, last.body)
            /\ db' = db

\* C6: get_profile(username) with no profile record inserts exactly one,
\* with language "en" and push_notifications true, and returns it; a second
\* get_profile for that username right after the first has finished returns
\* the same values and leaves the store unchanged; reads one after another
\* never leave more than one profile record per username.
C6_DefaultProfileOnce == []C6_OnePerUser /\ [][C6_Step /\ C6_Again]_vars

\* two requests, both get_profile of one username: one record, nothing else
C6_Witness ==
    /\ connected
    /\ nreq = 2
    /\ \A w \in Workers : pc[w].at \in {"idle", "done"}
    /\ last.op = "get_profile"
    /\ Len(db["profile"]) = 1
    /\ nextId = 2
    /\ last.body.language = "en"
    /\ last.body.push_notifications = TRUE

\* C7: get_notifications(u) returns exactly the stored notifications whose
\* username is u or "guest": all of those, and none addressed to another
\* username.
C7_OwnAndGuest ==
    (last.op = "get_notifications" /\ last.status = 200) =>
        LET u == last.args.username
            stored == db["notification"]
            wanted == {i \in 1..Len(stored) : stored[i].username \in {u, "guest"}}
            view(n) == [username |-> n.username, message |-> n.message, kind |-> n.kind]
        IN  /\ Len(last.body) = Cardinality(wanted)
            /\ \A i \in wanted : view(stored[i]) \in Range(last.body)
            /\ \A j \in 1..Len(last.body) :
                  /\ last.body[j].username \in {u, "guest"}
                  /\ \E i \in wanted : view(stored[i]) = last.body[j]

\* alice's listing over a store holding one for guest and one for bob
C7_Witness ==
    /\ last.op = "get_notifications"
    /\ last.status = 200
    /\ last.args.username = "alice"
    /\ {db["notification"][i].username : i \in 1..Len(db["notification"])}
          = {"guest", "bob"}
    /\ Len(last.body) = 1

C8_StepOn(anyStore) ==
    \A w \in Workers :
        LET p == pc[w].args
            u == IF p.username \in {<<>>, <<"">>} THEN "guest" ELSE p.username[1]
            supplied == {k \in {"full_name", "language", "push_notifications"} :
                            p[k] # <<>>}
            \* the value supplied for k as the store holds it
            value(k) == IF k = "full_name" THEN p[k] ELSE p[k][1]
            \* update_one returns: the store is there and does not raise
            applied == /\ connected
                       /\ anyStore \/ ~(emptySetRefused /\ supplied = {})
        IN  /\ (Took(w, "update_profile", "primary") /\ applied) =>
                  /\ Went(w, "notify")
                  /\ Others(db, db', {"profile"})
                  /\ IF ProfilesOf(db, u) = {}
                     THEN /\ Len(db'["profile"]) = Len(db["profile"]) + 1
                          /\ Front(db'["profile"], Len(db["profile"])) = db["profile"]
                          /\ LET new == Last(db'["profile"])
                             IN  /\ DOMAIN new = {"_id", "username"} \cup supplied
                                 /\ new.username = u
                                 /\ \A k \in supplied : new[k] = value(k)
                     ELSE /\ Len(db'["profile"]) = Len(db["profile"])
                          /\ \E i \in ProfilesOf(db, u) :
                                LET old == db["profile"][i]
                                    new == db'["profile"][i]
                                IN  /\ DOMAIN new = (DOMAIN old) \cup supplied
                                    /\ \A k \in supplied : new[k] = value(k)
                                    /\ \A k \in (DOMAIN old) \ supplied : new[k] = old[k]
                                    /\ \A j \in 1..Len(db["profile"]) \ {i} :
                                          db'["profile"][j] = db["profile"][j]
            /\ Took(w, "update_profile", "notify") =>
                  /\ Notified(Msg("Profile updated"))
                  /\ Returned(w, 200, [message |-> "Saved successfully"])

HandlerMessage(h) ==
    CASE h = "add_note" -> "New note saved"
      [] h = "delete_note" -> "Note deleted successfully"
      [] h = "start_practice" -> "Start today's practice"
      [] h = "submit_quiz" -> "Your quiz score: "
      [] h = "update_profile" -> "Profile updated"
NotificationsBy(h) ==
    {i \in 1..Len(db["notification"]) :
        db["notification"][i].message[1] = HandlerMessage(h)}

\* C9: every write handler issues its primary write before its Notification:
\* in every state, requests stopped between the two writes included, the
\* Notifications of a handler's message are at most that handler's completed
\* primary writes.
C9_PrimaryBeforeNotification ==
    \A h \in Handlers : Cardinality(NotificationsBy(h)) <= primaryDone[h]

\* the process stopped after a note was stored and before it was notified
C9_Witness ==
    /\ pc = Idle
    /\ Len(db["note"]) = 1
    /\ primaryDone["add_note"] = 1
    /\ NotificationsBy("add_note") = {}

C10_AllGuest ==
    /\ \A i \in 1..Len(db["notification"]) : db["notification"][i].username = "guest"
    /\ \A u \in QueryUsernames \cup {"", "bob"} :
          NotificationsOf(db, u) =
              [i \in 1..Len(db["notification"]) |->
                  [username |-> db["notification"][i].username,
                   message |-> db["notification"][i].message,
                   kind |-> db["notification"][i].kind]]

C10_NeverRemoved ==
    Front(db'["notification"], Len(db["notification"])) = db["notification"]

C10_Listed ==
    \A w \in Workers :
        (Took(w, "get_notifications", "find") /\ connected) =>
            /\ pc'[w].at = "done"
            /\ Len(last'.body) = Len(db["notification"])
            /\ \A i \in 1..Len(last'.body) :
                  /\ last'.body[i].username = "guest"
                  /\ last'.body[i].message = db["notification"][i].message

\* C10: every Notification any handler writes is stored with username
\* "guest", whatever username the request acted for, and none is ever
\* removed; so get_notifications(u) returns the same notifications for every
\* u: all that were ever written.
C10_NotificationsAreBroadcast ==
    []C10_AllGuest /\ [][C10_NeverRemoved /\ C10_Listed]_vars

\* two requests acting for alice, each of which wrote a Notification
C10_Witness ==
    /\ last.op \in {"add_note", "submit_quiz", "update_profile"}
    /\ last.status = 200
    /\ last.args.username = <<"alice">>
    /\ Len(db["notification"]) = 2
    /\ Len(db["course"]) = 0

====
